---- MODULE Spec2Model ----
(***************************************************************************)
(* Model of the auction runtime module                                     *)
(* substrate-kitties/runtime/src/auction/mod.rs.                           *)
(*                                                                         *)
(* Storage items are the variables; every dispatchable function is one     *)
(* action.  A handler that reads a record with Self::auctions(id) works on *)
(* a decoded copy of it: the copy is a LET-bound value here, and storage   *)
(* changes only where the source calls insert/put.                         *)
(***************************************************************************)
EXTENDS Integers, Sequences, FiniteSets, TLC

\* ---------------------------------------------------------------- bounds
\* T::AuctionId::max_value() of the (generic, Bounded) id type.
MaxAuctionId == 2
\* Cap on the length of the event log kept in the model.
MaxEvents == 2

\* ------------------------------------------------------------ input sets
Accounts == {"alice", "bob"}
\* Origins of a call.  Every call carries a signed origin (callers are
\* authenticated before they reach the module).
Origins == Accounts
AuctionIds == 0 .. MaxAuctionId
BidPrices == {50, 210}
BlockNumbers == {1, 9}
Signatures == {"sig"}

\* Option<T>: None is the empty tuple, Some(v) the one-element tuple.
None == << >>
Some(v) == << v >>
is_some(o) == o # None
unwrap(o) == o[1]

\* (begin_price, minimum_step, upper_bound_price) given to create_auction
CreateArgs == { << 100, 10, Some(200) >>, << 100, 0, None >> }
\* (start_at, stop_at, wait_period) given to setup_moments
MomentArgs == { << Some(5), None, Some(60) >>, << None, Some(7), None >> }

\* ------------------------------------------------------- error messages
Ok == "Ok"
ErrBadOrigin == "bad origin: expected to be a signed origin"
ErrNotExist == "Auction does not exist"
ErrNotPending == "Auction is already started or over."
ErrNotOwner == "Only owner can call this fn."
ErrCannotPause == "Auction can NOT be paused now."
ErrCannotResume == "Auction can NOT be resumed now."
ErrCannotStop == "Auction can NOT be stopped now."
ErrOverflow == "Auction count overflow"

\* ----------------------------------------------------------------- state
VARIABLES
    NextAuctionId,        \* T::AuctionId
    AuctionItems,         \* map ItemId => Option<AuctionId>   (present keys)
    Auctions,             \* map AuctionId => Option<Auction>  (present keys)
    AuctionBids,          \* double_map AuctionId, AccountId => Option<Balance>
    AuctionParticipants,  \* map AuctionId => Option<Vec<AccountId>>
    PendingAuctions,      \* Vec<AuctionId>
    ActiveAuctions,       \* Vec<AuctionId>
    events,               \* the events deposited so far
    last                  \* the last call: what was called and what it returned

storage == << NextAuctionId, AuctionItems, Auctions, AuctionBids,
              AuctionParticipants, PendingAuctions, ActiveAuctions >>
vars == << NextAuctionId, AuctionItems, Auctions, AuctionBids,
           AuctionParticipants, PendingAuctions, ActiveAuctions, events, last >>

\* Self::auctions(id): the stored record, or None.
auctions(auction_id) ==
    IF auction_id \in DOMAIN Auctions THEN Some(Auctions[auction_id]) ELSE None

\* ensure_signed(origin): the account of a signed origin.
ensure_signed(origin) == IF origin \in Accounts THEN Some(origin) ELSE None

\* RawEvent::AuctionUpdated(auction_id, status_from, status_to)
AuctionUpdated(auction_id, from, to) ==
    [id |-> auction_id, from |-> from, to |-> to]

\* What a call leaves behind for the caller: its name, arguments and result,
\* the events it deposited and how often it invoked do_settle_auction.
Call(op, origin, id, args, result, ret, emitted) ==
    [op |-> op, origin |-> origin, id |-> id, args |-> args,
     result |-> result, ret |-> ret, emitted |-> emitted, settle |-> 0]

NoArgs == << None, None, None >>

\* deposit_event appends to the log.
CanDeposit == Len(events) < MaxEvents

\* ------------------------------------------------------ private functions
\* get_next_auction_id without the comparison against max_value()
get_next_auction_id_unchecked ==
    [ok |-> TRUE, id |-> NextAuctionId, err |-> Ok]

get_next_auction_id ==
    IF NextAuctionId = MaxAuctionId
    THEN [ok |-> FALSE, id |-> NextAuctionId, err |-> ErrOverflow]
    ELSE [ok |-> TRUE, id |-> NextAuctionId, err |-> Ok]

\* new_auction with the two price arguments exchanged
new_auction_swapped(auction_id, owner, begin_price, minimum_step, upper_bound_price) ==
    [id |-> auction_id,
     item |-> 0,
     owner |-> owner,
     begin_price |-> minimum_step,
     minimum_step |-> begin_price,
     status |-> "PendingStart",
     upper_bound_price |-> upper_bound_price,
     start_at |-> None,
     stop_at |-> None,
     wait_period |-> None,
     latest_participate |-> None]

new_auction(auction_id, owner, begin_price, minimum_step, upper_bound_price) ==
    [id |-> auction_id,
     item |-> 0,
     owner |-> owner,
     begin_price |-> begin_price,
     minimum_step |-> minimum_step,
     status |-> "PendingStart",
     upper_bound_price |-> upper_bound_price,
     start_at |-> None,
     stop_at |-> None,
     wait_period |-> None,
     latest_participate |-> None]

\* <Auctions<T>>::insert(auction_id, auction)
Auctions_insert(auction_id, auction) ==
    [k \in (DOMAIN Auctions) \cup {auction_id} |->
        IF k = auction_id THEN auction ELSE Auctions[k]]

\* auction_id + 1.into() in the width of the id type
next_id_after(auction_id) == (auction_id + 1) % (MaxAuctionId + 1)

insert_auction(owner, auction_id, auction) ==
    /\ Auctions' = Auctions_insert(auction_id, auction)
    /\ NextAuctionId' = next_id_after(auction_id)

do_settle_auction(auction_id) == Ok

\* do_stop_auction that settles whatever the status is
do_stop_auction_always_settles(auction) ==
    LET settled == do_settle_auction(auction.id)
    IN  IF settled # Ok
        THEN [result |-> settled, auction |-> auction, emitted |-> << >>, settle |-> 1]
        ELSE [result |-> Ok,
              auction |-> [auction EXCEPT !.status = "Stopped"],
              emitted |-> << AuctionUpdated(auction.id, auction.status, "Stopped") >>,
              settle |-> 1]

\* do_stop_auction(&mut auction): the result, the record the reference
\* points to afterwards, the events deposited and the number of calls of
\* do_settle_auction.
do_stop_auction(auction) ==
    LET needed == auction.status # "PendingStart"
        settled == IF needed THEN do_settle_auction(auction.id) ELSE Ok
        calls == IF needed THEN 1 ELSE 0
    IN  IF settled # Ok
        THEN [result |-> settled, auction |-> auction, emitted |-> << >>, settle |-> calls]
        ELSE [result |-> Ok,
              auction |-> [auction EXCEPT !.status = "Stopped"],
              emitted |-> << AuctionUpdated(auction.id, auction.status, "Stopped") >>,
              settle |-> calls]

\* ------------------------------------------------------------ dispatchables
create_auction(origin, begin_price, minimum_step, upper_bound_price) ==
    LET sender == ensure_signed(origin)
        args == << Some(begin_price), Some(minimum_step), upper_bound_price >>
        next == get_next_auction_id
    IN  IF ~is_some(sender)
        THEN /\ last' = Call("create_auction", origin, None, args, ErrBadOrigin, None, << >>)
             /\ UNCHANGED << storage, events >>
        ELSE IF ~next.ok
        THEN /\ last' = Call("create_auction", origin, None, args, next.err, None, << >>)
             /\ UNCHANGED << storage, events >>
        ELSE /\ insert_auction(unwrap(sender), next.id,
                    new_auction(next.id, unwrap(sender), begin_price,
                                minimum_step, upper_bound_price))
             /\ last' = Call("create_auction", origin, None, args, Ok, Some(next.id), << >>)
             /\ UNCHANGED << AuctionItems, AuctionBids, AuctionParticipants,
                             PendingAuctions, ActiveAuctions, events >>

\* setup start and/or stop Moment, and wait_period after someone's bid
setup_moments(origin, auction_id, start_at, stop_at, wait_period) ==
    LET sender == ensure_signed(origin)
        args == << start_at, stop_at, wait_period >>
        stored == auctions(auction_id)
        auction0 == unwrap(stored)
        \* the decoded copy after the three assignments
        auction1 == IF is_some(start_at)
                    THEN [auction0 EXCEPT !.start_at = start_at] ELSE auction0
        auction2 == IF is_some(stop_at)
                    THEN [auction1 EXCEPT !.stop_at = stop_at] ELSE auction1
        auction3 == IF is_some(wait_period)
                    THEN [auction2 EXCEPT !.wait_period = wait_period] ELSE auction2
        result == IF ~is_some(sender) THEN ErrBadOrigin
                  ELSE IF ~is_some(stored) THEN ErrNotExist
                  ELSE IF auction0.status # "PendingStart" THEN ErrNotPending
                  ELSE IF auction0.owner # unwrap(sender) THEN ErrNotOwner
                  ELSE Ok
    IN  \* auction3 is dropped at the end of the function: nothing is stored
        /\ last' = Call("setup_moments", origin, Some(auction_id), args, result, None, << >>)
        /\ UNCHANGED << storage, events >>

\* pause_auction with the guard of stop_auction (status != Stopped) in place
\* of its own, and with the paused record stored
pause_auction_any_status(origin, auction_id) ==
    LET sender == ensure_signed(origin)
        stored == auctions(auction_id)
        auction0 == unwrap(stored)
        auction1 == [auction0 EXCEPT !.status = "Paused"]
        result == IF ~is_some(sender) THEN ErrBadOrigin
                  ELSE IF ~is_some(stored) THEN ErrNotExist
                  ELSE IF auction0.status = "Stopped" THEN ErrCannotPause
                  ELSE IF auction0.owner # unwrap(sender) THEN ErrNotOwner
                  ELSE Ok
        emitted == IF result = Ok
                   THEN << AuctionUpdated(auction_id, auction0.status, "Paused") >>
                   ELSE << >>
    IN  /\ (emitted # << >> => CanDeposit)
        /\ events' = events \o emitted
        /\ last' = Call("pause_auction", origin, Some(auction_id), NoArgs, result, None, emitted)
        /\ Auctions' = IF result = Ok THEN Auctions_insert(auction_id, auction1) ELSE Auctions
        /\ UNCHANGED << NextAuctionId, AuctionItems, AuctionBids,
                        AuctionParticipants, PendingAuctions, ActiveAuctions >>

\* pause_auction with the owner guard ahead of the status guard
pause_auction_owner_first(origin, auction_id) ==
    LET sender == ensure_signed(origin)
        stored == auctions(auction_id)
        auction0 == unwrap(stored)
        result == IF ~is_some(sender) THEN ErrBadOrigin
                  ELSE IF ~is_some(stored) THEN ErrNotExist
                  ELSE IF auction0.owner # unwrap(sender) THEN ErrNotOwner
                  ELSE IF auction0.status # "Active" THEN ErrCannotPause
                  ELSE Ok
        emitted == IF result = Ok
                   THEN << AuctionUpdated(auction_id, "Active", "Paused") >>
                   ELSE << >>
    IN  /\ (emitted # << >> => CanDeposit)
        /\ events' = events \o emitted
        /\ last' = Call("pause_auction", origin, Some(auction_id), NoArgs, result, None, emitted)
        /\ UNCHANGED storage

\* Owner can pause the auction when it is in active.
pause_auction(origin, auction_id) ==
    LET sender == ensure_signed(origin)
        stored == auctions(auction_id)
        auction0 == unwrap(stored)
        auction1 == [auction0 EXCEPT !.status = "Paused"]
        result == IF ~is_some(sender) THEN ErrBadOrigin
                  ELSE IF ~is_some(stored) THEN ErrNotExist
                  ELSE IF auction0.status # "Active" THEN ErrCannotPause
                  ELSE IF auction0.owner # unwrap(sender) THEN ErrNotOwner
                  ELSE Ok
        emitted == IF result = Ok
                   THEN << AuctionUpdated(auction_id, "Active", "Paused") >>
                   ELSE << >>
    IN  \* auction1 is dropped at the end of the function: nothing is stored
        /\ (emitted # << >> => CanDeposit)
        /\ events' = events \o emitted
        /\ last' = Call("pause_auction", origin, Some(auction_id), NoArgs, result, None, emitted)
        /\ UNCHANGED storage

\* Owner can resume the auction paused before.
resume_auction(origin, auction_id) ==
    LET sender == ensure_signed(origin)
        stored == auctions(auction_id)
        auction0 == unwrap(stored)
        auction1 == [auction0 EXCEPT !.status = "Active"]
        result == IF ~is_some(sender) THEN ErrBadOrigin
                  ELSE IF ~is_some(stored) THEN ErrNotExist
                  ELSE IF auction0.status # "Paused" THEN ErrCannotResume
                  ELSE IF auction0.owner # unwrap(sender) THEN ErrNotOwner
                  ELSE Ok
        emitted == IF result = Ok
                   THEN << AuctionUpdated(auction_id, "Paused", "Active") >>
                   ELSE << >>
    IN  \* auction1 is dropped at the end of the function: nothing is stored
        /\ (emitted # << >> => CanDeposit)
        /\ events' = events \o emitted
        /\ last' = Call("resume_auction", origin, Some(auction_id), NoArgs, result, None, emitted)
        /\ UNCHANGED storage

\* Called by offchain worker; the body is Ok(()).
start_auction(origin, auction, signature) ==
    /\ last' = Call("start_auction", origin, Some(auction), NoArgs, Ok, None, << >>)
    /\ UNCHANGED << storage, events >>

\* stop_auction with the owner guard after the call of do_stop_auction, so
\* that the event is deposited before the caller is known to be the owner
stop_auction_owner_checked_late(origin, auction_id) ==
    LET sender == ensure_signed(origin)
        stored == auctions(auction_id)
        auction0 == unwrap(stored)
        early == IF ~is_some(sender) THEN ErrBadOrigin
                 ELSE IF ~is_some(stored) THEN ErrNotExist
                 ELSE IF auction0.status = "Stopped" THEN ErrCannotStop
                 ELSE Ok
        stopped == do_stop_auction(auction0)
        result == IF early # Ok THEN early
                  ELSE IF stopped.result # Ok THEN stopped.result
                  ELSE IF auction0.owner # unwrap(sender) THEN ErrNotOwner
                  ELSE Ok
        emitted == IF early # Ok THEN << >> ELSE stopped.emitted
        settle == IF early # Ok THEN 0 ELSE stopped.settle
    IN  /\ (emitted # << >> => CanDeposit)
        /\ events' = events \o emitted
        /\ last' = [Call("stop_auction", origin, Some(auction_id), NoArgs, result,
                         None, emitted) EXCEPT !.settle = settle]
        /\ UNCHANGED storage

\* owner can stop an active or paused auction by his will.
stop_auction(origin, auction_id) ==
    LET sender == ensure_signed(origin)
        stored == auctions(auction_id)
        auction0 == unwrap(stored)
        guard == IF ~is_some(sender) THEN ErrBadOrigin
                 ELSE IF ~is_some(stored) THEN ErrNotExist
                 ELSE IF auction0.status = "Stopped" THEN ErrCannotStop
                 ELSE IF auction0.owner # unwrap(sender) THEN ErrNotOwner
                 ELSE Ok
        \* do_stop_auction(&mut auction) works on the decoded copy
        stopped == do_stop_auction(auction0)
        result == IF guard # Ok THEN guard ELSE stopped.result
        emitted == IF guard # Ok THEN << >> ELSE stopped.emitted
        settle == IF guard # Ok THEN 0 ELSE stopped.settle
    IN  \* the copy is dropped at the end of the function: nothing is stored
        /\ (emitted # << >> => CanDeposit)
        /\ events' = events \o emitted
        /\ last' = [Call("stop_auction", origin, Some(auction_id), NoArgs, result,
                         None, emitted) EXCEPT !.settle = settle]
        /\ UNCHANGED storage

\* The body is Ok(()).
participate_auction(origin, auction, price) ==
    /\ last' = Call("participate_auction", origin, Some(auction),
                    << Some(price), None, None >>, Ok, None, << >>)
    /\ UNCHANGED << storage, events >>

\* offchain(now): two TODO comments, no statement.
offchain(now) == UNCHANGED << storage, events >>

\* Runs after every block.
offchain_worker(now, is_validator) ==
    /\ IF is_validator THEN offchain(now) ELSE UNCHANGED << storage, events >>
    /\ last' = Call("offchain_worker", "root", None,
                    << Some(now), IF is_validator THEN Some(1) ELSE None, None >>,
                    Ok, None, << >>)

Init ==
    /\ NextAuctionId = 0
    /\ AuctionItems = << >>
    /\ Auctions = << >>
    /\ AuctionBids = << >>
    /\ AuctionParticipants = << >>
    /\ PendingAuctions = << >>
    /\ ActiveAuctions = << >>
    /\ events = << >>
    /\ last = Call("genesis", "root", None, NoArgs, Ok, None, << >>)

Next ==
    \/ \E o \in Origins, a \in CreateArgs : create_auction(o, a[1], a[2], a[3])
    \/ \E o \in Origins, id \in AuctionIds, m \in MomentArgs :
          setup_moments(o, id, m[1], m[2], m[3])
    \/ \E o \in Origins, id \in AuctionIds : pause_auction(o, id)
    \/ \E o \in Origins, id \in AuctionIds : resume_auction(o, id)
    \/ \E o \in Origins, id \in AuctionIds, sig \in Signatures : start_auction(o, id, sig)
    \/ \E o \in Origins, id \in AuctionIds : stop_auction(o, id)
    \/ \E o \in Origins, id \in AuctionIds, p \in BidPrices : participate_auction(o, id, p)
    \/ \E now \in BlockNumbers, v \in BOOLEAN : offchain_worker(now, v)

Spec == Init /\ [][Next]_vars

\* ------------------------------------------------- vocabulary of the claims
\* The error kinds of the interface, as sets of the messages the module returns.
NotFound == { ErrNotExist }
InvalidState == { ErrNotPending, ErrCannotPause, ErrCannotResume, ErrCannotStop }
Unauthorized == { ErrNotOwner }
IdSpaceExhausted == { ErrOverflow }

\* The auction a call named, and whether a record is stored under it.
CalledId == unwrap(last.id)
CalledStored == is_some(last.id) /\ CalledId \in DOMAIN Auctions

\* Number of AuctionUpdated(id, _, Stopped) events in a log.
StoppedCount(log, id) ==
    Cardinality({ i \in 1 .. Len(log) : log[i].id = id /\ log[i].to = "Stopped" })

\* The edges of the status graph.
StatusEdges ==
    { << "PendingStart", "Active" >>, << "Active", "Paused" >>,
      << "Paused", "Active" >>, << "Active", "Stopped" >>,
      << "Paused", "Stopped" >>, << "PendingStart", "Stopped" >> }

\* Highest amount in the bid ledger of an auction, None when it has no bid.
CurrentHighest(auction_id) ==
    LET amounts == { AuctionBids[k] : k \in { j \in DOMAIN AuctionBids : j[1] = auction_id } }
    IN  IF amounts = {} THEN None
        ELSE Some(CHOOSE m \in amounts : \A n \in amounts : n <= m)

\* Lowest price a bid on the auction may have: max(begin_price, highest + minimum_step).
RequiredPrice(auction_id) ==
    LET a == Auctions[auction_id]
        h == CurrentHighest(auction_id)
    IN  IF is_some(h) /\ unwrap(h) + a.minimum_step > a.begin_price
        THEN unwrap(h) + a.minimum_step ELSE a.begin_price

\* ------------------------------------------------------------------ claims

\* C1: once stop_auction has returned success the stored record has status
\* Stopped, a later stop_auction on the same auction fails with InvalidState,
\* and at most one AuctionUpdated(_, _, Stopped) is deposited per auction.
C1_StoppedExactlyOnce ==
    /\ (last.op = "stop_auction" /\ last.result = Ok)
          => Auctions[CalledId].status = "Stopped"
    /\ (/\ last.op = "stop_auction"
        /\ StoppedCount(events, CalledId) - StoppedCount(last.emitted, CalledId) >= 1)
          => last.result \in InvalidState
    /\ \A id \in AuctionIds : StoppedCount(events, id) <= 1

\* C2: in every step the stored status of an auction stays the same or moves
\* along an edge of the status graph.
C2_StatusMovesAlongEdges ==
    [][\A id \in (DOMAIN Auctions) \cap (DOMAIN Auctions') :
          \/ Auctions'[id].status = Auctions[id].status
          \/ << Auctions[id].status, Auctions'[id].status >> \in StatusEdges]_vars

\* C2 witness: the owner's stop_auction on a stored auction returned success
\* and deposited its event.
C2_Witness ==
    /\ last.op = "stop_auction"
    /\ last.result = Ok
    /\ CalledStored
    /\ last.emitted # << >>

\* C3: an accepted bid has a price of at least
\* max(begin_price, current_highest + minimum_step).
C3_AcceptedPriceHighEnough ==
    (last.op = "participate_auction" /\ last.result = Ok /\ CalledStored)
       => unwrap(last.args[1]) >= RequiredPrice(CalledId)

\* C4: a bid on a stored auction whose status is not Active fails with
\* InvalidState and changes neither the record nor the bid ledger.
C4_BidNeedsActive ==
    [][(/\ last'.op = "participate_auction"
        /\ unwrap(last'.id) \in DOMAIN Auctions
        /\ Auctions[unwrap(last'.id)].status # "Active")
          => /\ last'.result \in InvalidState
             /\ UNCHANGED << Auctions, AuctionBids, AuctionParticipants >>]_vars

\* C5: a bid above the upper_bound_price of the auction is not accepted.
C5_NoBidAboveCeiling ==
    (/\ last.op = "participate_auction"
     /\ CalledStored
     /\ is_some(Auctions[CalledId].upper_bound_price)
     /\ unwrap(last.args[1]) > unwrap(Auctions[CalledId].upper_bound_price))
       => last.result # Ok

\* C6: after setup_moments returned success the stored record holds each
\* provided moment, keeps each omitted one, and is otherwise unchanged.
C6_MomentsStored ==
    [][(last'.op = "setup_moments" /\ last'.result = Ok)
          => LET id == unwrap(last'.id)
                 old == Auctions[id]
                 pick(arg, prior) == IF is_some(arg) THEN arg ELSE prior
             IN  Auctions'[id] =
                    [old EXCEPT !.start_at = pick(last'.args[1], old.start_at),
                                !.stop_at = pick(last'.args[2], old.stop_at),
                                !.wait_period = pick(last'.args[3], old.wait_period)]]_vars

\* C7: create_auction succeeds whenever the id space has room, whatever the
\* prices, and stores under the returned id a record owned by the caller,
\* PendingStart, with the given prices and every optional field unset.
C7_CreateStoresRecord ==
    [][last'.op = "create_auction"
          => /\ (NextAuctionId # MaxAuctionId) => last'.result = Ok
             /\ (last'.result = Ok) =>
                   LET id == unwrap(last'.ret)
                   IN  /\ id \in DOMAIN Auctions'
                       /\ Auctions'[id].owner = last'.origin
                       /\ Auctions'[id].status = "PendingStart"
                       /\ Some(Auctions'[id].begin_price) = last'.args[1]
                       /\ Some(Auctions'[id].minimum_step) = last'.args[2]
                       /\ Auctions'[id].upper_bound_price = last'.args[3]
                       /\ Auctions'[id].start_at = None
                       /\ Auctions'[id].stop_at = None
                       /\ Auctions'[id].wait_period = None
                       /\ Auctions'[id].latest_participate = None]_vars

\* C7 witness: a create_auction with a ceiling returned success and its
\* record is stored.
C7_Witness ==
    /\ last.op = "create_auction"
    /\ last.result = Ok
    /\ last.args[3] = Some(200)
    /\ unwrap(last.ret) \in DOMAIN Auctions

\* C8: create_auction with minimum_step = 0 is rejected, and no stored
\* auction has minimum_step = 0.
C8_ZeroStepRejected ==
    /\ (last.op = "create_auction" /\ last.args[2] = Some(0)) => last.result # Ok
    /\ \A id \in DOMAIN Auctions : Auctions[id].minimum_step # 0

\* C9: ids are allocated in strictly increasing order, the record under
\* key k has id k, the stored keys are exactly those below NextAuctionId,
\* NextAuctionId never decreases, and at the maximum id create_auction fails
\* with the overflow error and leaves storage unchanged.
C9_IdsStrictlyIncreasing ==
    /\ [](/\ \A k \in DOMAIN Auctions : Auctions[k].id = k
          /\ DOMAIN Auctions = 0 .. (NextAuctionId - 1))
    /\ [][/\ NextAuctionId' >= NextAuctionId
          /\ (last'.op = "create_auction" /\ last'.result = Ok)
                => /\ \A k \in DOMAIN Auctions : unwrap(last'.ret) > k
                   /\ DOMAIN Auctions' = (DOMAIN Auctions) \cup { unwrap(last'.ret) }
          /\ (last'.op = "create_auction" /\ NextAuctionId = MaxAuctionId)
                => /\ last'.result \in IdSpaceExhausted
                   /\ UNCHANGED storage]_vars

\* C9 witness: create_auction was refused for lack of ids while every id
\* below the maximum is stored.
C9_Witness ==
    /\ last.op = "create_auction"
    /\ last.result = ErrOverflow
    /\ NextAuctionId = MaxAuctionId
    /\ Cardinality(DOMAIN Auctions) = MaxAuctionId

\* C10: no two distinct auctions that are not Stopped have the same item,
\* and AuctionItems maps an item to at most one such auction.
C10_ItemInOneLiveAuction ==
    /\ \A a, b \in DOMAIN Auctions :
          (a # b /\ Auctions[a].status # "Stopped" /\ Auctions[b].status # "Stopped")
             => Auctions[a].item # Auctions[b].item
    /\ \A a \in DOMAIN Auctions :
          (Auctions[a].status # "Stopped" /\ Auctions[a].item \in DOMAIN AuctionItems)
             => AuctionItems[Auctions[a].item] = a

\* The operations that take an AuctionId.
IdOps == { "setup_moments", "pause_auction", "resume_auction",
           "start_auction", "stop_auction", "participate_auction" }

\* The start_at an auction holds when the scheduler runs: the stored one,
\* or the one the owner's successful setup_moments has just provided.
ScheduledStart(auction_id) ==
    IF /\ last.op = "setup_moments"
       /\ last.result = Ok
       /\ last.id = Some(auction_id)
       /\ is_some(last.args[1])
    THEN last.args[1]
    ELSE Auctions[auction_id].start_at

\* The ids a Vec<AuctionId> index holds.
Members(index) == { index[i] : i \in 1 .. Len(index) }

C14_UnknownIdIsNotFound ==
    [][(last'.op \in IdOps /\ unwrap(last'.id) \notin DOMAIN Auctions)
          => /\ last'.result \in NotFound
             /\ UNCHANGED storage
             /\ events' = events
             /\ last'.emitted = << >>]_vars

\* C15 as stated: pause_auction on a PendingStart auction fails with
\* InvalidState, pause_auction by a caller other than the owner fails with
\* Unauthorized; the record is unchanged and no event is deposited.
C15_PauseRejections ==
    [][(last'.op = "pause_auction" /\ unwrap(last'.id) \in DOMAIN Auctions)
          => LET id == unwrap(last'.id)
                 rejected == /\ Auctions'[id] = Auctions[id]
                             /\ events' = events
                             /\ last'.emitted = << >>
             IN  /\ (Auctions[id].status = "PendingStart")
                       => (last'.result \in InvalidState /\ rejected)
                 /\ (last'.origin # Auctions[id].owner)
                       => (last'.result \in Unauthorized /\ rejected)]_vars

\* C15 as amended: pause_auction on a PendingStart auction fails with
\* InvalidState whoever calls; pause_auction by a caller other than the owner
\* fails with Unauthorized when the auction is Active and with InvalidState
\* otherwise; the record is unchanged and no event is deposited.
C15_PauseRejectionsStatusFirst ==
    [][(last'.op = "pause_auction" /\ unwrap(last'.id) \in DOMAIN Auctions)
          => LET id == unwrap(last'.id)
                 rejected == /\ Auctions'[id] = Auctions[id]
                             /\ events' = events
                             /\ last'.emitted = << >>
             IN  /\ (Auctions[id].status = "PendingStart")
                       => (last'.result \in InvalidState /\ rejected)
                 /\ (last'.origin # Auctions[id].owner)
                       => /\ IF Auctions[id].status = "Active"
                             THEN last'.result \in Unauthorized
                             ELSE last'.result \in InvalidState
                          /\ rejected]_vars

\* C15 witness: a caller other than the owner called pause_auction on a
\* stored PendingStart auction and was refused.
C15_Witness ==
    /\ last.op = "pause_auction"
    /\ CalledStored
    /\ last.origin # Auctions[CalledId].owner
    /\ Auctions[CalledId].status = "PendingStart"
    /\ last.result = ErrCannotPause

\* C16: start_auction on a PendingStart auction makes the stored record
\* Active, and on an auction in any other status fails with InvalidState.
C16_StartActivates ==
    [][(last'.op = "start_auction" /\ unwrap(last'.id) \in DOMAIN Auctions)
          => LET id == unwrap(last'.id)
             IN  IF Auctions[id].status = "PendingStart"
                 THEN last'.result = Ok /\ Auctions'[id].status = "Active"
                 ELSE last'.result \in InvalidState]_vars

C18_GuardFailureChangesNothing ==
    [][(/\ last'.op \in { "create_auction", "setup_moments", "pause_auction",
                          "resume_auction", "stop_auction", "participate_auction" }
        /\ last'.result \in NotFound \cup InvalidState \cup Unauthorized \cup IdSpaceExhausted)
          => /\ UNCHANGED storage
             /\ events' = events
             /\ last'.emitted = << >>]_vars

\* C18 witness: stop_auction by a caller other than the owner was refused
\* while an earlier event is in the log.
C18_Witness ==
    /\ last.op = "stop_auction"
    /\ last.result = ErrNotOwner
    /\ CalledStored
    /\ events # << >>

\* C19: PendingAuctions holds exactly the ids of the PendingStart auctions
\* and ActiveAuctions exactly those of the Active or Paused ones.
C19_IndexesMatchStatus ==
    /\ Members(PendingAuctions) =
          { id \in DOMAIN Auctions : Auctions[id].status = "PendingStart" }
    /\ Members(ActiveAuctions) =
          { id \in DOMAIN Auctions : Auctions[id].status \in { "Active", "Paused" } }

\* C20: when a call deposits AuctionUpdated(id, from, to), the stored status
\* of auction id was from before the call and is to after it.
C20_EventsAgreeWithStore ==
    [][\A i \in 1 .. Len(last'.emitted) :
          LET e == last'.emitted[i]
          IN  /\ e.id \in DOMAIN Auctions
              /\ Auctions[e.id].status = e.from
              /\ Auctions'[e.id].status = e.to]_vars
====
